---- MODULE Spec2Model ----
(***************************************************************************)
(* Model of src/src/lib.rs (module path_finding): the 8-connected neighbor *)
(* enumeration, the construction of the tile graph over a petgraph         *)
(* UnGraphMap, the Path iterator that rasterizes a Line, and the           *)
(* collision_between scan over it.                                         *)
(*                                                                         *)
(* One behaviour is one call of one of the three functions; Init draws the *)
(* function and its arguments.                                             *)
(***************************************************************************)
EXTENDS Integers, Sequences, FiniteSets

\* largest grid size / coordinate drawn for the arguments
MaxSize == 3
\* largest number of cells removed from the full grid to form the graph
\* handed to collision_between
MaxHoles == 2
\* the history of yielded steps stops growing after this many yields of the
\* line's second point (the program state itself no longer changes then; the
\* rounds of the loop that follow still show in calls)
MaxEndYields == 2

VARIABLES
    fn,        \* the function called: "neighbors", "build", "collision"
    pc,        \* "call", "loop", "returned", "panicked"
    p1,        \* neighbors: p;  collision_between: p1
    p2,        \* collision_between: p2
    x_size,    \* neighbors: x_len;  build_empty_tile_graph: x_size
    y_size,    \* neighbors: y_len;  build_empty_tile_graph: y_size
    nodes,     \* UnGraphMap.nodes: node -> adjacency list of <<node, direction>>
    edges,     \* UnGraphMap.edges: edge key <<a, b>> -> weight
    points,    \* build_empty_tile_graph: the points the outer for has not visited
    pending,   \* build_empty_tile_graph: the neighbors the inner for has not visited
    cur,       \* build_empty_tile_graph: the p of the outer for
    nbRet,     \* the Vec<Point> neighbors returned
    curr_x,    \* Path.curr_x
    colRet,    \* the bool collision_between returned
    trace,     \* history: the steps Path::next has yielded to collision_between
    endYields, \* history: how often Path::next yielded line.second at curr_x == second.0
    calls      \* history: parity of the number of calls of Path::next

vars == <<fn, pc, p1, p2, x_size, y_size, nodes, edges, points, pending, cur,
          nbRet, curr_x, colRet, trace, endYields, calls>>

----------------------------------------------------------------------------
(* neighbors *)

Abs(n) == IF n < 0 THEN -n ELSE n

\* the range -1..2 of both closures
OffsetRange == <<-1, 0, 1>>

RECURSIVE Flatten(_)
Flatten(ss) == IF ss = <<>> THEN <<>> ELSE Head(ss) \o Flatten(Tail(ss))

\* the inner closure without the filter that skips (0, 0)
InnerPoints_noskip(p, dx) ==
    [i \in 1..Len(OffsetRange) |-> <<p[1] + dx, p[2] + OffsetRange[i]>>]

\* the inner closure: for one dx, the dy with (dx, dy) # (0, 0), mapped to points
InnerPoints(p, dx) ==
    LET kept == SelectSeq(OffsetRange, LAMBDA dy : ~(dx = 0 /\ dy = 0))
    IN  [i \in 1..Len(kept) |-> <<p[1] + dx, p[2] + kept[i]>>]

\* neighbors with the bound test off by one (> for >=)
NeighborsPanics_gt(p, x_len, y_len) ==
    p[1] < 0 \/ p[2] < 0 \/ p[1] > x_len \/ p[2] > y_len

\* the condition of the panic at the head of neighbors
NeighborsPanics(p, x_len, y_len) ==
    p[1] < 0 \/ p[2] < 0 \/ p[1] >= x_len \/ p[2] >= y_len

\* neighbors with the two closures nested the other way round (dy outer)
neighbors_dy_outer(p, x_len, y_len) ==
    LET all == Flatten([i \in 1..Len(OffsetRange) |->
                   LET dy == OffsetRange[i]
                       kept == SelectSeq(OffsetRange, LAMBDA dx : ~(dx = 0 /\ dy = 0))
                   IN  [j \in 1..Len(kept) |-> <<p[1] + kept[j], p[2] + dy>>]])
        nonneg == SelectSeq(all, LAMBDA q : q[1] >= 0 /\ q[2] >= 0)
    IN  SelectSeq(nonneg, LAMBDA q : q[1] < x_len /\ q[2] < y_len)

\* neighbors without its last filter (x < x_len && y < y_len)
neighbors_no_upper(p, x_len, y_len) ==
    LET all == Flatten([i \in 1..Len(OffsetRange) |-> InnerPoints(p, OffsetRange[i])])
    IN  SelectSeq(all, LAMBDA q : q[1] >= 0 /\ q[2] >= 0)

\* the value neighbors returns when it does not panic
neighbors(p, x_len, y_len) ==
    LET all == Flatten([i \in 1..Len(OffsetRange) |-> InnerPoints(p, OffsetRange[i])])
        nonneg == SelectSeq(all, LAMBDA q : q[1] >= 0 /\ q[2] >= 0)
    IN  SelectSeq(nonneg, LAMBDA q : q[1] < x_len /\ q[2] < y_len)

----------------------------------------------------------------------------
(* UnGraphMap (petgraph::graphmap), as far as lib.rs uses it *)

\* Ord on (i32, i32)
PointLE(a, b) == a[1] < b[1] \/ (a[1] = b[1] /\ a[2] <= b[2])

\* edge_key without the normalisation of the pair's order (a directed graph's key)
edge_key_directed(a, b) == <<a, b>>

\* GraphMap::edge_key for an undirected graph
edge_key(a, b) == IF PointLE(a, b) THEN <<a, b>> ELSE <<b, a>>

\* GraphMap::add_node: the node map after the call
add_node(ns, n) ==
    IF n \in DOMAIN ns THEN ns ELSE [q \in DOMAIN ns \cup {n} |-> IF q = n THEN <<>> ELSE ns[q]]

\* GraphMap::add_edge: the edge map after the call
add_edge_edges(es, a, b, w) ==
    [k \in DOMAIN es \cup {edge_key(a, b)} |-> IF k = edge_key(a, b) THEN w ELSE es[k]]

\* GraphMap::add_edge: the node map after the call
add_edge_nodes(ns, es, a, b) ==
    IF edge_key(a, b) \in DOMAIN es
    THEN ns
    ELSE LET na == [q \in DOMAIN ns \cup {a} |->
                       IF q = a
                       THEN (IF a \in DOMAIN ns THEN ns[a] ELSE <<>>) \o <<<<b, "Outgoing">>>>
                       ELSE ns[q]]
         IN  IF a = b
             THEN na
             ELSE [q \in DOMAIN na \cup {b} |->
                       IF q = b
                       THEN (IF b \in DOMAIN na THEN na[b] ELSE <<>>) \o <<<<a, "Incoming">>>>
                       ELSE na[q]]

contains_node(ns, n) == n \in DOMAIN ns

contains_edge(es, a, b) == edge_key(a, b) \in DOMAIN es

\* UnGraphMap::new()
EmptyMap == [q \in {} |-> <<>>]

----------------------------------------------------------------------------
(* build_empty_tile_graph *)

\* the size check with 0 for 1
BuildPanics_lt0(xs, ys) == xs < 0 \/ ys < 0

\* the condition of the panic at the head of build_empty_tile_graph
BuildPanics(xs, ys) == xs < 1 \/ ys < 1

\* the Vec points: x outer, y inner
GridPoints(xs, ys) ==
    [i \in 1..(xs * ys) |-> <<(i - 1) \div ys, (i - 1) % ys>>]

----------------------------------------------------------------------------
(* Path::next *)

\* floor(a / sqrt(n)) for a >= 0, n > 0
FloorDivSqrt(a, n) ==
    CHOOSE k \in 0..a : k * k * n <= a * a /\ (k + 1) * (k + 1) * n > a * a

\* (dx as f64 * atan(ry / rx).sin()) as i32, for rx > 0:
\* sin(atan(ry / rx)) = ry / sqrt(rx^2 + ry^2), and the cast truncates
\* towards zero.  For the coordinates drawn here the real value is 0 or is not
\* an integer, so the rounding of the f64 operations cannot change the cast.
TruncDy(dx, rx, ry) ==
    LET k == FloorDivSqrt(dx * Abs(ry), rx * rx + ry * ry)
    IN  IF ry < 0 THEN -k ELSE k

\* Path::next whose second branch lost its condition (else for else if)
PathNext_no_end(first, second, cx) ==
    IF cx < second[1]
    THEN LET dx == cx - first[1]
             dy == TruncDy(dx, second[1] - first[1], second[2] - first[2])
         IN  [some |-> TRUE, item |-> <<cx, first[2] + dy>>, curr_x |-> cx + 1]
    ELSE [some |-> TRUE, item |-> second, curr_x |-> cx]

\* Path::next: the Option it returns and the curr_x it leaves
PathNext(first, second, cx) ==
    IF cx < second[1]
    THEN LET dx == cx - first[1]
             dy == TruncDy(dx, second[1] - first[1], second[2] - first[2])
         IN  [some |-> TRUE, item |-> <<cx, first[2] + dy>>, curr_x |-> cx + 1]
    ELSE IF cx = second[1]
    THEN [some |-> TRUE, item |-> second, curr_x |-> cx]
    ELSE [some |-> FALSE, item |-> second, curr_x |-> cx]

----------------------------------------------------------------------------
(* the arguments drawn *)

Coords == 0..MaxSize
LinePoints == Coords \X Coords
NeighborPoints == (-1..MaxSize) \X (-1..MaxSize)
Sizes == -1..MaxSize
GridCells == (0..(MaxSize - 1)) \X (0..(MaxSize - 1))
Holes == {H \in SUBSET GridCells : Cardinality(H) <= MaxHoles}

\* a graph with the node set S and no edge
NodesOnly(S) == [q \in S |-> <<>>]

Init ==
    /\ fn \in {"neighbors", "build", "collision"}
    /\ pc = "call"
    /\ p1 \in IF fn = "neighbors" THEN NeighborPoints
              ELSE IF fn = "collision" THEN LinePoints ELSE {<<0, 0>>}
    /\ p2 \in IF fn = "collision" THEN LinePoints ELSE {<<0, 0>>}
    /\ x_size \in IF fn = "collision" THEN {0} ELSE Sizes
    /\ y_size \in IF fn = "collision" THEN {0} ELSE Sizes
    /\ nodes \in IF fn = "collision" THEN {NodesOnly(GridCells \ H) : H \in Holes}
                 ELSE {EmptyMap}
    /\ edges = EmptyMap
    /\ points = <<>>
    /\ pending = <<>>
    /\ cur = <<0, 0>>
    /\ nbRet = <<>>
    /\ curr_x = 0
    /\ colRet = FALSE
    /\ trace = <<>>
    /\ endYields = 0
    /\ calls = 0

----------------------------------------------------------------------------
(* the calls *)

\* neighbors(p1, x_size, y_size)
NeighborsCall ==
    /\ fn = "neighbors" /\ pc = "call"
    /\ IF NeighborsPanics(p1, x_size, y_size)
       THEN pc' = "panicked" /\ UNCHANGED nbRet
       ELSE pc' = "returned" /\ nbRet' = neighbors(p1, x_size, y_size)
    /\ UNCHANGED <<fn, p1, p2, x_size, y_size, nodes, edges, points, pending, cur,
                   curr_x, colRet, trace, endYields, calls>>

\* build_empty_tile_graph up to the for loop: the size check, points, the empty graph
BuildStart ==
    /\ fn = "build" /\ pc = "call"
    /\ IF BuildPanics(x_size, y_size)
       THEN pc' = "panicked" /\ UNCHANGED <<points, nodes, edges>>
       ELSE /\ pc' = "loop"
            /\ points' = GridPoints(x_size, y_size)
            /\ nodes' = EmptyMap
            /\ edges' = EmptyMap
    /\ UNCHANGED <<fn, p1, p2, x_size, y_size, pending, cur, nbRet, curr_x, colRet,
                   trace, endYields, calls>>

\* the outer for takes the next p: g.add_node(p), then the call of neighbors
BuildVisit ==
    /\ fn = "build" /\ pc = "loop" /\ pending = <<>> /\ points # <<>>
    /\ cur' = Head(points)
    /\ points' = Tail(points)
    /\ nodes' = add_node(nodes, Head(points))
    /\ IF NeighborsPanics(Head(points), x_size, y_size)
       THEN pc' = "panicked" /\ UNCHANGED pending
       ELSE pc' = "loop" /\ pending' = neighbors(Head(points), x_size, y_size)
    /\ UNCHANGED <<fn, p1, p2, x_size, y_size, edges, nbRet, curr_x, colRet, trace,
                   endYields, calls>>

\* the inner for takes the next n: g.add_edge(p, n, 1)
BuildAddEdge ==
    /\ fn = "build" /\ pc = "loop" /\ pending # <<>>
    /\ nodes' = add_edge_nodes(nodes, edges, cur, Head(pending))
    /\ edges' = add_edge_edges(edges, cur, Head(pending), 1)
    /\ pending' = Tail(pending)
    /\ UNCHANGED <<fn, pc, p1, p2, x_size, y_size, points, cur, nbRet, curr_x, colRet,
                   trace, endYields, calls>>

\* both loops are exhausted: return g
BuildReturn ==
    /\ fn = "build" /\ pc = "loop" /\ pending = <<>> /\ points = <<>>
    /\ pc' = "returned"
    /\ UNCHANGED <<fn, p1, p2, x_size, y_size, nodes, edges, points, pending, cur,
                   nbRet, curr_x, colRet, trace, endYields, calls>>

\* collision_between up to the for loop: the Path with curr_x = p1.0
CollisionStart ==
    /\ fn = "collision" /\ pc = "call"
    /\ curr_x' = p1[1]
    /\ pc' = "loop"
    /\ UNCHANGED <<fn, p1, p2, x_size, y_size, nodes, edges, points, pending, cur,
                   nbRet, colRet, trace, endYields, calls>>

\* one round of the for loop: path.next(), then the body on the step it yielded
CollisionStep ==
    /\ fn = "collision" /\ pc = "loop"
    /\ calls' = 1 - calls
    /\ LET r == PathNext(p1, p2, curr_x)
           atEnd == curr_x = p2[1]
       IN  /\ curr_x' = r.curr_x
           /\ IF r.some
              THEN /\ trace' = IF atEnd /\ endYields = MaxEndYields
                               THEN trace ELSE Append(trace, r.item)
                   /\ endYields' = IF atEnd /\ endYields < MaxEndYields
                                   THEN endYields + 1 ELSE endYields
                   /\ IF ~contains_node(nodes, r.item)
                      THEN pc' = "returned" /\ colRet' = TRUE
                      ELSE pc' = "loop" /\ UNCHANGED colRet
              ELSE /\ pc' = "returned" /\ colRet' = FALSE
                   /\ UNCHANGED <<trace, endYields>>
    /\ UNCHANGED <<fn, p1, p2, x_size, y_size, nodes, edges, points, pending, cur,
                   nbRet>>

Next ==
    \/ NeighborsCall
    \/ BuildStart
    \/ BuildVisit
    \/ BuildAddEdge
    \/ BuildReturn
    \/ CollisionStart
    \/ CollisionStep

Spec == Init /\ [][Next]_vars

\* a running call always takes its next step
FairSpec == Init /\ [][Next]_vars /\ WF_vars(Next)

----------------------------------------------------------------------------
(* properties *)

InGrid(q, xl, yl) == 0 <= q[1] /\ q[1] < xl /\ 0 <= q[2] /\ q[2] < yl

\* the cells around p that lie in the grid
Around(p, xl, yl) ==
    {q \in ((p[1] - 1)..(p[1] + 1)) \X ((p[2] - 1)..(p[2] + 1)) : q # p /\ InGrid(q, xl, yl)}

\* (dx, dy) order on the results: x first, then y
PointLT(a, b) == a[1] < b[1] \/ (a[1] = b[1] /\ a[2] < b[2])

Range(s) == {s[i] : i \in 1..Len(s)}

\* C1: for a point inside a grid of sizes >= 1, neighbors returns exactly the
\* in-grid cells among the 8 around it, each once, dx ascending then dy
\* ascending; neighbors((1,1),3,3) is the full ring in that order and
\* neighbors((0,0),1,1) is empty.
C1_NeighborsExactOrdered ==
    (fn = "neighbors" /\ pc = "returned" /\ x_size >= 1 /\ y_size >= 1
        /\ InGrid(p1, x_size, y_size)) =>
        /\ Range(nbRet) = Around(p1, x_size, y_size)
        /\ Len(nbRet) = Cardinality(Around(p1, x_size, y_size))
        /\ \A i, j \in 1..Len(nbRet) : i < j => PointLT(nbRet[i], nbRet[j])
        /\ (p1 = <<1, 1>> /\ x_size = 3 /\ y_size = 3) =>
               nbRet = << <<0, 0>>, <<0, 1>>, <<0, 2>>, <<1, 0>>, <<1, 2>>,
                          <<2, 0>>, <<2, 1>>, <<2, 2>> >>
        /\ (p1 = <<0, 0>> /\ x_size = 1 /\ y_size = 1) => nbRet = <<>>

C1_Witness ==
    fn = "neighbors" /\ pc = "returned" /\ p1 = <<1, 1>> /\ x_size = 3 /\ y_size = 3
        /\ Len(nbRet) = 8

\* C2: neighbors panics, returning no list, exactly when the point has a
\* negative coordinate or a coordinate >= the grid's length on that axis.
C2_PanicsIffOutOfBounds ==
    (fn = "neighbors" /\ pc # "call") =>
        /\ pc \in {"panicked", "returned"}
        /\ (pc = "panicked") <=> ~InGrid(p1, x_size, y_size)
        /\ (pc = "panicked") => nbRet = <<>>

C2_Witness ==
    fn = "neighbors" /\ pc = "panicked" /\ p1 = <<3, 0>> /\ x_size = 3 /\ y_size = 3

Grid(xs, ys) == (0..(xs - 1)) \X (0..(ys - 1))

\* the nodes of p's adjacency list
Adjacent(p) == {nodes[p][i][1] : i \in 1..Len(nodes[p])}

\* C3: while build_empty_tile_graph runs no node outside the grid is in the
\* graph, and the graph it returns has exactly the x_size * y_size grid
\* points as nodes.
C3_NodesAreTheGrid ==
    (fn = "build") =>
        /\ \A q \in DOMAIN nodes : InGrid(q, x_size, y_size)
        /\ (pc = "returned") =>
               /\ DOMAIN nodes = Grid(x_size, y_size)
               /\ Cardinality(DOMAIN nodes) = x_size * y_size

C3_Witness ==
    fn = "build" /\ pc = "returned" /\ x_size = 2 /\ y_size = 3
        /\ Cardinality(DOMAIN nodes) = 6

\* C4: the graph is undirected, no edge is stored twice and every weight is 1
\* throughout the construction; the returned graph's edges are exactly the
\* unordered pairs of neighboring grid points, each node's degree is the
\* length of its neighbors list, and build(1, 2) has exactly 1 edge.
C4_EdgesAreNeighborPairs ==
    (fn = "build") =>
        /\ \A k \in DOMAIN edges : edges[k] = 1
        /\ \A p \in DOMAIN nodes :
               /\ Len(nodes[p]) = Cardinality(Adjacent(p))
               /\ \A q \in Adjacent(p) :
                      /\ q \in DOMAIN nodes /\ p \in Adjacent(q)
                      /\ contains_edge(edges, p, q) /\ contains_edge(edges, q, p)
        /\ (pc = "returned") =>
               /\ {{k[1], k[2]} : k \in DOMAIN edges}
                     = {{p, q} : p \in Grid(x_size, y_size), q \in Grid(x_size, y_size)}
                         \cap UNION {{{p, q} : q \in Around(p, x_size, y_size)}
                                        : p \in Grid(x_size, y_size)}
               /\ 2 * Cardinality(DOMAIN edges)
                     = Cardinality({pq \in Grid(x_size, y_size) \X Grid(x_size, y_size) :
                                       pq[2] \in Around(pq[1], x_size, y_size)})
               /\ \A p \in DOMAIN nodes :
                      /\ Adjacent(p) = Around(p, x_size, y_size)
                      /\ Len(nodes[p]) = Len(neighbors(p, x_size, y_size))
               /\ (x_size = 1 /\ y_size = 2) => Cardinality(DOMAIN edges) = 1

C4_Witness ==
    fn = "build" /\ pc = "returned" /\ x_size = 1 /\ y_size = 2
        /\ Cardinality(DOMAIN edges) = 1 /\ contains_edge(edges, <<0, 1>>, <<0, 0>>)

IsCorner(p, xs, ys) == p[1] \in {0, xs - 1} /\ p[2] \in {0, ys - 1}

IsBoundary(p, xs, ys) == p[1] \in {0, xs - 1} \/ p[2] \in {0, ys - 1}

\* the edge counts of a returned grid of at least 3 x 3 cells, with c edges
\* at a corner
DegreesByPosition(c) ==
    (fn = "build" /\ pc = "returned" /\ x_size >= 3 /\ y_size >= 3) =>
        \A p \in Grid(x_size, y_size) :
            /\ p \in DOMAIN nodes
            /\ Len(nodes[p]) = IF IsCorner(p, x_size, y_size) THEN c
                               ELSE IF IsBoundary(p, x_size, y_size) THEN 5
                               ELSE 8

\* C5 as stated: in a returned grid of at least 3 x 3 cells a corner has 4
\* edges, another boundary cell 5, an interior cell 8.
C5_Original == DegreesByPosition(4)

\* C5 amended: in a returned grid of at least 3 x 3 cells a corner has 3
\* edges, another boundary cell 5, an interior cell 8.
C5_DegreesByPosition == DegreesByPosition(3)

C5_Witness ==
    fn = "build" /\ pc = "returned" /\ x_size = 3 /\ y_size = 3
        /\ Len(nodes[<<0, 0>>]) = 3 /\ Len(nodes[<<1, 0>>]) = 5 /\ Len(nodes[<<1, 1>>]) = 8

\* C6: build_empty_tile_graph panics exactly when a size is < 1, and then
\* before any node or edge is inserted.
C6_InvalidSizeFailsFirst ==
    (fn = "build") =>
        /\ (pc = "panicked") => (x_size < 1 \/ y_size < 1)
        /\ (x_size < 1 \/ y_size < 1) =>
               /\ pc \in {"call", "panicked"}
               /\ DOMAIN nodes = {} /\ DOMAIN edges = {}

C6_Witness ==
    fn = "build" /\ pc = "panicked" /\ x_size = 1 /\ y_size = 0 /\ DOMAIN nodes = {}

\* the points Path::next yields for the line p1 -> p2 from curr_x = p1.0
RasterSteps == {PathNext(p1, p2, x).item : x \in p1[1]..p2[1]}

\* the cells of a vertical line, from a's y to b's y
VerticalWalk(a, b) ==
    [i \in 1..(Abs(b[2] - a[2]) + 1) |->
        <<a[1], IF b[2] >= a[2] THEN a[2] + (i - 1) ELSE a[2] - (i - 1)>>]

IsPrefix(s, t) == Len(s) <= Len(t) /\ \A i \in 1..Len(s) : s[i] = t[i]

\* C7: for first.x <= second.x the rasterizer yields `second` once, at
\* curr_x = second.x, and the call after it returns None, which ends the scan
\* of collision_between.
C7_EndpointYieldedOnce ==
    (fn = "collision" /\ p1[1] <= p2[1]) => endYields <= 1

\* C8: collision_between returns false if every rasterized point of the line
\* is a node of the graph, and returns true if one is not, having stopped at
\* the first such point.
C8_ReturnsByMembership ==
    /\ [](fn = "collision" /\ pc = "returned" /\ colRet =>
            /\ trace # <<>>
            /\ ~contains_node(nodes, trace[Len(trace)])
            /\ \A i \in 1..(Len(trace) - 1) : contains_node(nodes, trace[i]))
    /\ (fn = "collision" /\ ~(RasterSteps \subseteq DOMAIN nodes))
          ~> (pc = "returned" /\ colRet)
    /\ (fn = "collision" /\ RasterSteps \subseteq DOMAIN nodes)
          ~> (pc = "returned" /\ ~colRet)

\* C9: for a vertical line the rasterizer yields the cells (first.x, y) with
\* y walking from first.y to second.y, so that a false result of
\* collision_between means every one of them is a node.
C9_VerticalWalked ==
    (fn = "collision" /\ p1[1] = p2[1]) =>
        /\ IsPrefix(trace, VerticalWalk(p1, p2))
        /\ (pc = "returned" /\ ~colRet) =>
               \A i \in 1..Len(VerticalWalk(p1, p2)) :
                   contains_node(nodes, VerticalWalk(p1, p2)[i])

\* C10: for p1.x > p2.x the first next() returns None and leaves curr_x at
\* p1.x, nothing is yielded, and collision_between returns false whatever
\* the graph holds.
C10_RightToLeftNoCollision ==
    [][(fn = "collision" /\ pc = "loop" /\ p1[1] > p2[1]) =>
          /\ curr_x = p1[1] /\ curr_x' = curr_x
          /\ trace = <<>> /\ trace' = <<>>
          /\ pc' = "returned" /\ colRet' = FALSE]_vars

C10_Witness ==
    fn = "collision" /\ pc = "returned" /\ p1 = <<3, 3>> /\ p2 = <<0, 3>>
        /\ ~colRet /\ trace = <<>>
        /\ \A x \in 0..3 : ~contains_node(nodes, <<x, 3>>)

====
